---- MODULE Spec2Model ----
(***************************************************************************)
(* Model of the n8n code nodes of the contextual-rag repository: the       *)
(* hybrid search node with ColBERT reranking (dense + BM25 prefetch fused  *)
(* by the index, reranked by a MaxSim score) and the scoring function it   *)
(* contains.                                                               *)
(*                                                                         *)
(* JavaScript numbers are modelled exactly as pairs <<n, d>>: a rational   *)
(* n/d in lowest terms with d > 0, and d = 0 for the three IEEE specials   *)
(* <<1,0>> = Infinity, <<-1,0>> = -Infinity, <<0,0>> = NaN.  Token vectors *)
(* are drawn from vectors whose squared norm is a perfect square, so that  *)
(* Math.sqrt is exact in the model.                                        *)
(***************************************************************************)
EXTENDS Integers, Sequences, FiniteSets, TLC

VARIABLES
    input,            \* $input.item.json: [query, collection_name, top_k]
    pc,               \* position of the search node: which await it is suspended at
    calls,            \* sequence of backends an HTTP request was issued to, in order
    responded,        \* backends whose response has been received (await resumed)
    replies,          \* how each request of calls that has ended did end, in order
    queryDense,       \* denseData.embedding
    queryBm25,        \* bm25Data.embedding
    queryColbert,     \* colbertData.embedding
    indexReqs,        \* bodies of the requests issued to the index
    candidates,       \* searchData.result.points, or [] (line 67)
    results,          \* the reranked list returned in json.results
    outcome,          \* "pending" | "returned" | "thrown"
    error,            \* the error the node failed with
    deadlineExpired,  \* the caller's deadline passed while the node was running
    sQ, sD, sScore, sDone,  \* scorer harness: inputs and result of colbertScore
    invInput,         \* two executions of the node at once: the input item of each
    invPc,            \* the await each execution is suspended at
    frames,           \* the local constants of each execution (lines 14-103)
    invGot,           \* what each execution's own requests were answered with
    invOutcome,       \* "pending" | "returned" | "thrown", of each execution
    invReturned,      \* json.results as returned by each execution
    store,            \* the points of the collection, by id
    inputData,        \* insert node: $input.item.json
    insPc,            \* insert node: "idle" | "awaitPut" | "done"
    insReqs,          \* insert node: the requests this run sent to the index
    insReply,         \* insert node: how the PUT ended ("none" while it has not)
    insOutcome,       \* insert node: "pending" | "returned" | "thrown"
    insBefore,        \* the store as it was when this run of the insert node began
    stCandidates,     \* the last search since the store changed: the points returned
    stResults,        \* ... its json.results
    stOutcome,        \* ... "none" | "returned" | "thrown"
    collections,      \* names of the collections the index holds
    crInput,          \* create node, per run: $input.item.json.collection_name
    crPc,             \* create node, per run: "start" | "awaitCheck" | "awaitPut" | "done"
    crCheck,          \* create node, per run: how the GET ended ("none" while it has not)
    crPuts,           \* create node, per run: number of PUT requests sent
    crPut,            \* create node, per run: how the PUT ended ("none" while it has not)
    crOutcome,        \* create node, per run: "pending" | "false" | "true" | "thrown"
    crAfter,          \* per run: the runs that had ended when it began
    faulty            \* the index gave an answer a reliable index would not give

vars == <<input, pc, calls, responded, replies, queryDense, queryBm25, queryColbert,
          indexReqs, candidates, results, outcome, error, deadlineExpired,
          sQ, sD, sScore, sDone,
          invInput, invPc, frames, invGot, invOutcome, invReturned,
          store, inputData, insPc, insReqs, insReply, insOutcome, insBefore,
          stCandidates, stResults, stOutcome,
          collections, crInput, crPc, crCheck, crPuts, crPut, crOutcome, crAfter,
          faulty>>

pipeVars == <<input, pc, calls, responded, replies, queryDense, queryBm25, queryColbert,
              indexReqs, candidates, results, outcome, error, deadlineExpired>>

scoreVars == <<sQ, sD, sScore, sDone>>

pairVars == <<invInput, invPc, frames, invGot, invOutcome, invReturned>>

insertVars == <<store, inputData, insPc, insReqs, insReply, insOutcome, insBefore,
                stCandidates, stResults, stOutcome>>

createVars == <<collections, crInput, crPc, crCheck, crPuts, crPut, crOutcome, crAfter,
                faulty>>

writeVars == <<insertVars, createVars>>

(***************************************************************************)
(* Bounds of the model.                                                    *)
(***************************************************************************)
MaxCands == 2      \* most points the index returns in one response
MaxTokens == 2     \* most token vectors in a multi-vector given to the scorer

(***************************************************************************)
(* JavaScript numbers.                                                     *)
(***************************************************************************)
Abs(i) == IF i < 0 THEN -i ELSE i

Sign(i) == IF i < 0 THEN -1 ELSE IF i > 0 THEN 1 ELSE 0

RECURSIVE Gcd(_, _)
Gcd(a, b) == IF b = 0 THEN a ELSE Gcd(b, a % b)

NaN == <<0, 0>>

Infinity == <<1, 0>>

NegInfinity == <<-1, 0>>

Zero == <<0, 1>>

IsNaN(x) == x[1] = 0 /\ x[2] = 0

IsFinite(x) == x[2] > 0

\* the number n/d, d # 0, in lowest terms
Frac(n, d) ==
    LET g == Gcd(Abs(n), Abs(d))
        s == IF d < 0 THEN -1 ELSE 1
    IN  <<(s * n) \div g, (s * d) \div g>>

Num(i) == <<i, 1>>

Neg(x) == <<-x[1], x[2]>>

\* x + y
Add(x, y) ==
    IF IsNaN(x) \/ IsNaN(y) THEN NaN
    ELSE IF ~IsFinite(x) /\ ~IsFinite(y) THEN (IF x = y THEN x ELSE NaN)
    ELSE IF ~IsFinite(x) THEN x
    ELSE IF ~IsFinite(y) THEN y
    ELSE Frac(x[1] * y[2] + y[1] * x[2], x[2] * y[2])

\* x * y
Mul(x, y) ==
    IF IsNaN(x) \/ IsNaN(y) THEN NaN
    ELSE IF ~IsFinite(x) \/ ~IsFinite(y)
         THEN (IF x[1] = 0 \/ y[1] = 0 THEN NaN ELSE <<Sign(x[1]) * Sign(y[1]), 0>>)
    ELSE Frac(x[1] * y[1], x[2] * y[2])

\* x / y
Div(x, y) ==
    IF IsNaN(x) \/ IsNaN(y) THEN NaN
    ELSE IF ~IsFinite(x) /\ ~IsFinite(y) THEN NaN
    ELSE IF ~IsFinite(x) THEN <<Sign(x[1]) * (IF y[1] < 0 THEN -1 ELSE 1), 0>>
    ELSE IF ~IsFinite(y) THEN Zero
    ELSE IF y[1] = 0 THEN <<Sign(x[1]), 0>>
    ELSE Frac(x[1] * y[2], x[2] * y[1])

\* x < y (false when either is NaN)
Less(x, y) ==
    IF IsNaN(x) \/ IsNaN(y) THEN FALSE
    ELSE IF ~IsFinite(x) \/ ~IsFinite(y)
         THEN (IF IsFinite(x) THEN y = Infinity
               ELSE IF IsFinite(y) THEN x = NegInfinity
               ELSE x = NegInfinity /\ y = Infinity)
    ELSE x[1] * y[2] < y[1] * x[2]

\* mutant of MathMax: the later value replaces the running maximum
MathMaxLast(x, y) == y

\* Math.max(x, y)
MathMax(x, y) ==
    IF IsNaN(x) \/ IsNaN(y) THEN NaN
    ELSE IF Less(x, y) THEN y ELSE x

\* Math.sqrt(x) for the numbers the model produces: integers that are perfect squares
MathSqrt(x) ==
    IF IsNaN(x) THEN NaN
    ELSE IF ~IsFinite(x) THEN (IF x = Infinity THEN Infinity ELSE NaN)
    ELSE IF x[1] < 0 THEN NaN
    ELSE Num(CHOOSE r \in 0..x[1] : r * r = x[1])

(***************************************************************************)
(* colbertScore (search node, lines 70-88).                                *)
(***************************************************************************)
\* v[i] of a JavaScript array: undefined past the end, and undefined in
\* arithmetic is NaN
At(v, i) == IF i <= Len(v) THEN Num(v[i]) ELSE NaN

\* lines 75-80: the three accumulators after the loop over i < qv.length
RECURSIVE Accumulate(_, _, _)
Accumulate(qv, dv, i) ==
    IF i = 0 THEN [dot |-> Zero, qNorm |-> Zero, dNorm |-> Zero]
    ELSE LET a == Accumulate(qv, dv, i - 1)
         IN  [dot   |-> Add(a.dot, Mul(At(qv, i), At(dv, i))),
              qNorm |-> Add(a.qNorm, Mul(At(qv, i), At(qv, i))),
              dNorm |-> Add(a.dNorm, Mul(At(dv, i), At(dv, i)))]

\* mutant of MaxSimInit: the running maximum starts at 0
MaxSimInitZero == Zero

\* the initial value of maxSim (line 73)
MaxSimInit == NegInfinity

\* mutant of Sim: the quotient without the guard on a zero denominator
SimUnguarded(qv, dv) ==
    LET a == Accumulate(qv, dv, Len(qv))
    IN  Div(a.dot, Mul(MathSqrt(a.qNorm), MathSqrt(a.dNorm)))

\* lines 81-82
Sim(qv, dv) ==
    LET a == Accumulate(qv, dv, Len(qv))
        denom == Mul(MathSqrt(a.qNorm), MathSqrt(a.dNorm))
    IN  IF denom = Zero THEN Zero ELSE Div(a.dot, denom)

\* lines 73-84: maxSim after the first j document vectors
RECURSIVE MaxSimOver(_, _, _)
MaxSimOver(qv, dVecs, j) ==
    IF j = 0 THEN MaxSimInit
    ELSE MathMax(MaxSimOver(qv, dVecs, j - 1), Sim(qv, dVecs[j]))

\* lines 71-86: total after the first k query vectors
RECURSIVE TotalOver(_, _, _)
TotalOver(qVecs, dVecs, k) ==
    IF k = 0 THEN Zero
    ELSE Add(TotalOver(qVecs, dVecs, k - 1), MaxSimOver(qVecs[k], dVecs, Len(dVecs)))

\* mutant of colbertScore: the total returned without averaging
colbertScoreTotal(qVecs, dVecs) == TotalOver(qVecs, dVecs, Len(qVecs))

\* line 87
colbertScore(qVecs, dVecs) ==
    Div(TotalOver(qVecs, dVecs, Len(qVecs)), Num(Len(qVecs)))

(***************************************************************************)
(* Values exchanged with the backends.                                     *)
(***************************************************************************)
TokenVecs == {<<1, 0>>, <<0, 1>>, <<0, 0>>, <<-1, 0>>, <<3, 4>>}

RECURSIVE SeqsUpTo(_, _)
SeqsUpTo(S, n) ==
    IF n = 0 THEN {<<>>}
    ELSE LET shorter == SeqsUpTo(S, n - 1)
         IN  shorter \cup {Append(s, x) : s \in {t \in shorter : Len(t) = n - 1}, x \in S}

\* non-empty multi-vectors of at most MaxTokens token vectors
MultiVecs == SeqsUpTo(TokenVecs, MaxTokens) \ {<<>>}

\* a JavaScript value that may be undefined
Undefined(shape) == [defined |-> FALSE, v |-> shape]

Defined(value) == [defined |-> TRUE, v |-> value]

\* the embeddings the three backends answer with for the query
DenseVec == <<1, 2, 3>>

Bm25Vec == [indices |-> <<3, 7>>, values |-> <<1, 2>>]

NoBm25 == [indices |-> <<>>, values |-> <<>>]

ColbertVecs == <<<<1, 0>>, <<0, 1>>>>

\* how one awaited httpRequest can end: a 2xx body with the expected field, a 2xx
\* body without it, a connection failure or timeout, a non-2xx status
Replies == {"ok", "malformed", "unavailable", "http"}

Throws == {"unavailable", "http"}

\* payload.colbert_embedding of a returned point: absent, null or an array
Embeddings ==
    {[tag |-> "absent", vecs |-> <<>>],
     [tag |-> "null", vecs |-> <<>>],
     [tag |-> "array", vecs |-> <<>>],
     [tag |-> "array", vecs |-> <<<<1, 0>>>>],
     [tag |-> "array", vecs |-> <<<<0, 1>>>>],
     [tag |-> "array", vecs |-> <<<<-1, 0>>, <<3, 4>>>>]}

\* the payload of a returned point: none (and so no colbert_embedding in it), or
\* one with a text and a colbert_embedding
Payloads ==
    {[present |-> FALSE, text |-> "", colbert_embedding |-> [tag |-> "absent", vecs |-> <<>>]]}
    \cup {[present |-> TRUE, text |-> "doc", colbert_embedding |-> e] : e \in Embeddings}

PointIds == {1, 2, 3}

FusedScores == {<<1, 2>>, <<17, 20>>}

Points == [id : PointIds, score : FusedScores, payload : Payloads]

\* responses of the index: at most MaxCands points with pairwise different ids
PointLists ==
    {s \in SeqsUpTo(Points, MaxCands) :
        \A i, j \in 1..Len(s) : i # j => s[i].id # s[j].id}

(***************************************************************************)
(* The search node (hybrid search with ColBERT reranking).                 *)
(***************************************************************************)
DefaultCollection == "hybrid_demo"

DefaultTopK == 3

PrefetchFactor == 5

\* line 15
collectionName == IF input.collection_name = "" THEN DefaultCollection ELSE input.collection_name

\* line 16: 0 (or a missing top_k) is falsy
topK == IF input.top_k = 0 THEN DefaultTopK ELSE input.top_k

\* mutant of BuildSearchRequest: the overall limit is topK, not topK * 5
BuildSearchRequestTopK ==
    [method |-> "POST",
     url |-> <<"collections", collectionName, "points", "query">>,
     query |-> [fusion |-> "rrf"],
     prefetch |-> <<[query |-> queryDense, using |-> "dense", limit |-> topK * PrefetchFactor],
                    [query |-> [indices |-> queryBm25.v.indices, values |-> queryBm25.v.values],
                     using |-> "bm25", limit |-> topK * PrefetchFactor]>>,
     limit |-> topK,
     with_payload |-> TRUE]

\* mutant of BuildSearchRequest: the request sent to the collection's upsert endpoint
BuildSearchRequestUpsert ==
    [method |-> "PUT",
     url |-> <<"collections", collectionName, "points">>,
     query |-> [fusion |-> "rrf"],
     prefetch |-> <<[query |-> queryDense, using |-> "dense", limit |-> topK * PrefetchFactor],
                    [query |-> [indices |-> queryBm25.v.indices, values |-> queryBm25.v.values],
                     using |-> "bm25", limit |-> topK * PrefetchFactor]>>,
     limit |-> topK * PrefetchFactor,
     with_payload |-> TRUE]

\* lines 50-64: the request to the index
BuildSearchRequest ==
    [method |-> "POST",
     url |-> <<"collections", collectionName, "points", "query">>,
     query |-> [fusion |-> "rrf"],
     prefetch |-> <<[query |-> queryDense, using |-> "dense", limit |-> topK * PrefetchFactor],
                    [query |-> [indices |-> queryBm25.v.indices, values |-> queryBm25.v.values],
                     using |-> "bm25", limit |-> topK * PrefetchFactor]>>,
     limit |-> topK * PrefetchFactor,
     with_payload |-> TRUE]

\* line 91: c.payload && c.payload.colbert_embedding (every array is truthy)
HasColbert(c) == c.payload.present /\ c.payload.colbert_embedding.tag = "array"

FusedWeight == <<2, 5>>

ColbertWeight == <<3, 5>>

\* mutant of FinalScore: the two weights exchanged
FinalScoreSwapped(score, colbScore) ==
    Add(Mul(score, ColbertWeight), Mul(colbScore, FusedWeight))

\* line 99
FinalScore(score, colbScore) == Add(Mul(score, FusedWeight), Mul(colbScore, ColbertWeight))

\* lines 92-101
ScoreCandidate(c, qVecs) ==
    LET colbScore == colbertScore(qVecs, c.payload.colbert_embedding.vecs)
    IN  [id |-> c.id,
         text |-> c.payload.text,
         hybrid_score |-> c.score,
         colbert_score |-> colbScore,
         final_score |-> FinalScore(c.score, colbScore)]

\* mutant of Filter: only the first candidate that passes is kept (find for filter)
RECURSIVE FilterFirst(_)
FilterFirst(cs) ==
    IF cs = <<>> THEN <<>>
    ELSE IF HasColbert(Head(cs)) THEN <<Head(cs)>>
    ELSE FilterFirst(Tail(cs))

\* line 91
RECURSIVE Filter(_)
Filter(cs) ==
    IF cs = <<>> THEN <<>>
    ELSE IF HasColbert(Head(cs)) THEN <<Head(cs)>> \o Filter(Tail(cs))
    ELSE Filter(Tail(cs))

\* mutant of Before: the comparator of an ascending sort
BeforeAscending(a, b) == Less(Add(a.final_score, Neg(b.final_score)), Zero)

\* line 102: the comparator; a is placed before b when it is negative (NaN counts as 0)
Before(a, b) == Less(Add(b.final_score, Neg(a.final_score)), Zero)

\* Array.prototype.sort is stable: x goes in front of the first element it is before
RECURSIVE Insert(_, _)
Insert(sorted, x) ==
    IF sorted = <<>> THEN <<x>>
    ELSE IF Before(x, Head(sorted)) THEN <<x>> \o sorted
    ELSE <<Head(sorted)>> \o Insert(Tail(sorted), x)

RECURSIVE SortOver(_, _)
SortOver(rs, n) == IF n = 0 THEN <<>> ELSE Insert(SortOver(rs, n - 1), rs[n])

Sort(rs) == SortOver(rs, Len(rs))

\* mutant of Slice: the end index taken as inclusive
SliceInclusive(rs, end) == SubSeq(rs, 1, IF end + 1 > Len(rs) THEN Len(rs) ELSE end + 1)

\* slice(0, end): a negative end counts from the back
Slice(rs, end) ==
    LET e == IF end < 0 THEN (IF Len(rs) + end < 0 THEN 0 ELSE Len(rs) + end)
             ELSE IF end > Len(rs) THEN Len(rs) ELSE end
    IN  SubSeq(rs, 1, e)

\* mutant of Rerank: every candidate scored on the stored vectors of the first one
\* (the document vectors held in a variable shared by the scoring tasks)
RerankSharedVectors(cs, qVecs, k) ==
    LET kept == Filter(cs)
        own(c) == [c EXCEPT !.payload.colbert_embedding = kept[1].payload.colbert_embedding]
    IN  Slice(Sort([i \in 1..Len(kept) |-> ScoreCandidate(own(kept[i]), qVecs)]), k)

\* lines 90-103
Rerank(cs, qVecs, k) ==
    LET kept == Filter(cs)
    IN  Slice(Sort([i \in 1..Len(kept) |-> ScoreCandidate(kept[i], qVecs)]), k)

\* lines 92-101 with the literal 0.6 of line 99 (the weight the README tells the
\* user to adjust) replaced by w: the mapped candidates rs with their final score
\* under late-interaction weight w
Reweigh(rs, w) ==
    [i \in 1..Len(rs) |->
        [rs[i] EXCEPT !.final_score =
            Add(Mul(rs[i].hybrid_score, FusedWeight), Mul(rs[i].colbert_score, w))]]

NoError == [at |-> "none", kind |-> "none"]

Fail(at, kind) ==
    /\ outcome' = "thrown"
    /\ error' = [at |-> at, kind |-> kind]
    /\ pc' = "done"

\* lines 14-26: the node reads its input and issues the dense embedding request
Start ==
    /\ pc = "start"
    /\ pc' = "awaitDense"
    /\ calls' = Append(calls, "dense")
    /\ UNCHANGED <<input, responded, replies, queryDense, queryBm25, queryColbert, indexReqs,
                   candidates, results, outcome, error, deadlineExpired>>
    /\ UNCHANGED scoreVars
    /\ UNCHANGED pairVars
    /\ UNCHANGED writeVars

\* lines 20-36: the dense request ends; on success the BM25 request is issued
DenseResponds(r) ==
    /\ pc = "awaitDense"
    /\ replies' = Append(replies, r)
    /\ \/ /\ r \in Throws
          /\ Fail("dense", r)
          /\ UNCHANGED <<calls, responded, queryDense>>
       \/ /\ r \notin Throws
          /\ responded' = responded \cup {"dense"}
          /\ queryDense' = IF r = "ok" THEN Defined(DenseVec) ELSE Undefined(<<>>)
          /\ calls' = Append(calls, "bm25")
          /\ pc' = "awaitBm25"
          /\ UNCHANGED <<outcome, error>>
    /\ UNCHANGED <<input, queryBm25, queryColbert, indexReqs, candidates, results,
                   deadlineExpired>>
    /\ UNCHANGED scoreVars
    /\ UNCHANGED pairVars
    /\ UNCHANGED writeVars

\* lines 30-46: the BM25 request ends; on success the ColBERT request is issued
Bm25Responds(r) ==
    /\ pc = "awaitBm25"
    /\ replies' = Append(replies, r)
    /\ \/ /\ r \in Throws
          /\ Fail("bm25", r)
          /\ UNCHANGED <<calls, responded, queryBm25>>
       \/ /\ r \notin Throws
          /\ responded' = responded \cup {"bm25"}
          /\ queryBm25' = IF r = "ok" THEN Defined(Bm25Vec) ELSE Undefined(NoBm25)
          /\ calls' = Append(calls, "colbert")
          /\ pc' = "awaitColbert"
          /\ UNCHANGED <<outcome, error>>
    /\ UNCHANGED <<input, queryDense, queryColbert, indexReqs, candidates, results,
                   deadlineExpired>>
    /\ UNCHANGED scoreVars
    /\ UNCHANGED pairVars
    /\ UNCHANGED writeVars

\* lines 40-64: the ColBERT request ends; on success the request to the index is
\* built (reading queryBm25.indices throws a TypeError when queryBm25 is undefined)
\* and issued
ColbertResponds(r) ==
    /\ pc = "awaitColbert"
    /\ replies' = Append(replies, r)
    /\ \/ /\ r \in Throws
          /\ Fail("colbert", r)
          /\ UNCHANGED <<calls, responded, queryColbert, indexReqs>>
       \/ /\ r \notin Throws
          /\ ~queryBm25.defined
          /\ responded' = responded \cup {"colbert"}
          /\ queryColbert' = IF r = "ok" THEN Defined(ColbertVecs) ELSE Undefined(<<>>)
          /\ Fail("node", "TypeError")
          /\ UNCHANGED <<calls, indexReqs>>
       \/ /\ r \notin Throws
          /\ queryBm25.defined
          /\ responded' = responded \cup {"colbert"}
          /\ queryColbert' = IF r = "ok" THEN Defined(ColbertVecs) ELSE Undefined(<<>>)
          /\ indexReqs' = Append(indexReqs, BuildSearchRequest)
          /\ calls' = Append(calls, "index")
          /\ pc' = "awaitSearch"
          /\ UNCHANGED <<outcome, error>>
    /\ UNCHANGED <<input, queryDense, queryBm25, candidates, results, deadlineExpired>>
    /\ UNCHANGED scoreVars
    /\ UNCHANGED pairVars
    /\ UNCHANGED writeVars

\* lines 50-113: the index request ends; on success the points are reranked and the
\* node returns.  The index answers a query of limit n with at most n points and
\* rejects a limit below 1 with a non-2xx status.
SearchResponds(r, pts) ==
    /\ pc = "awaitSearch"
    /\ replies' = Append(replies, r)
    /\ \/ /\ r \in Throws
          /\ pts = <<>>
          /\ Fail("index", r)
          /\ UNCHANGED <<responded, candidates, results>>
       \/ /\ r \notin Throws
          /\ topK * PrefetchFactor >= 1
          /\ Len(pts) <= topK * PrefetchFactor
          /\ r = "malformed" => pts = <<>>
          /\ responded' = responded \cup {"index"}
          /\ candidates' = pts
          /\ IF Filter(pts) # <<>> /\ ~queryColbert.defined
             THEN /\ Fail("node", "TypeError")
                  /\ UNCHANGED results
             ELSE /\ results' = Rerank(pts, queryColbert.v, topK)
                  /\ outcome' = "returned"
                  /\ pc' = "done"
                  /\ UNCHANGED error
    /\ UNCHANGED <<input, calls, queryDense, queryBm25, queryColbert, indexReqs,
                   deadlineExpired>>
    /\ UNCHANGED scoreVars
    /\ UNCHANGED pairVars
    /\ UNCHANGED writeVars

\* the caller's deadline passes while the node is suspended at an await; the node
\* has no timer and does not observe it
DeadlineExpires ==
    /\ pc \in {"awaitDense", "awaitBm25", "awaitColbert", "awaitSearch"}
    /\ ~deadlineExpired
    /\ deadlineExpired' = TRUE
    /\ UNCHANGED <<input, pc, calls, responded, replies, queryDense, queryBm25,
                   queryColbert, indexReqs, candidates, results, outcome, error>>
    /\ UNCHANGED scoreVars
    /\ UNCHANGED pairVars
    /\ UNCHANGED writeVars

\* the input items the node is run on: an empty or a non-empty query, a missing
\* ("") or a given collection name, a negative, a missing or zero (0), and a
\* positive top_k
Inputs ==
    {[query |-> "what is hybrid search", collection_name |-> "", top_k |-> 1],
     [query |-> "what is hybrid search", collection_name |-> "docs", top_k |-> 2],
     [query |-> "what is hybrid search", collection_name |-> "docs", top_k |-> 0],
     [query |-> "", collection_name |-> "", top_k |-> -1]}

IdlePipe ==
    /\ pc = "start"
    /\ calls = <<>>
    /\ responded = {}
    /\ replies = <<>>
    /\ queryDense = Undefined(<<>>)
    /\ queryBm25 = Undefined(NoBm25)
    /\ queryColbert = Undefined(<<>>)
    /\ indexReqs = <<>>
    /\ candidates = <<>>
    /\ results = <<>>
    /\ outcome = "pending"
    /\ error = NoError
    /\ deadlineExpired = FALSE

IdleScore ==
    /\ sQ = <<>>
    /\ sD = <<>>
    /\ sScore = NaN
    /\ sDone = FALSE

\* the executions of the node that run at once
Invocations == {1, 2}

NoFrame ==
    [topK |-> 0,
     queryDense |-> Undefined(<<>>),
     queryBm25 |-> Undefined(NoBm25),
     queryColbert |-> Undefined(<<>>),
     candidates |-> <<>>,
     results |-> <<>>]

NothingGot == [colbert |-> <<>>, points |-> <<>>]

IdlePair ==
    /\ invInput = [p \in Invocations |-> [query |-> "", collection_name |-> "", top_k |-> 0]]
    /\ invPc = [p \in Invocations |-> "start"]
    /\ frames = [p \in Invocations |-> NoFrame]
    /\ invGot = [p \in Invocations |-> NothingGot]
    /\ invOutcome = [p \in Invocations |-> "pending"]
    /\ invReturned = [p \in Invocations |-> <<>>]

\* ids of the documents the insert node is run on
StoreIds == {1, 2}

\* no point stored under an id
NoPoint ==
    [exists |-> FALSE,
     payload |-> [present |-> FALSE, text |-> "",
                  colbert_embedding |-> [tag |-> "absent", vecs |-> <<>>]]]

EmptyStore == [i \in StoreIds |-> NoPoint]

NoInputData ==
    [id |-> 0, text |-> "", has_bm25 |-> FALSE,
     colbert_embedding |-> [tag |-> "absent", vecs |-> <<>>]]

IdleInsert ==
    /\ store = EmptyStore
    /\ inputData = NoInputData
    /\ insPc = "idle"
    /\ insReqs = <<>>
    /\ insReply = "none"
    /\ insOutcome = "pending"
    /\ insBefore = EmptyStore
    /\ stCandidates = <<>>
    /\ stResults = <<>>
    /\ stOutcome = "none"

\* the runs of the create-collection node
Runs == {1, 2}

IdleCreate ==
    /\ collections = {}
    /\ crInput = [r \in Runs |-> ""]
    /\ crPc = [r \in Runs |-> "start"]
    /\ crCheck = [r \in Runs |-> "none"]
    /\ crPuts = [r \in Runs |-> 0]
    /\ crPut = [r \in Runs |-> "none"]
    /\ crOutcome = [r \in Runs |-> "pending"]
    /\ crAfter = [r \in Runs |-> {}]
    /\ faulty = FALSE

IdleWrite ==
    /\ IdleInsert
    /\ IdleCreate

Init ==
    /\ input \in Inputs
    /\ IdlePipe
    /\ IdleScore
    /\ IdlePair
    /\ IdleWrite

Next ==
    \/ Start
    \/ \E r \in Replies : DenseResponds(r)
    \/ \E r \in Replies : Bm25Responds(r)
    \/ \E r \in Replies : ColbertResponds(r)
    \/ /\ pc = "awaitSearch"
       /\ \E r \in Replies, pts \in PointLists : SearchResponds(r, pts)

Spec == Init /\ [][Next]_vars

\* the node run by a caller whose deadline may pass at any await
NextDeadline == Next \/ DeadlineExpires

SpecDeadline == Init /\ [][NextDeadline]_vars

(***************************************************************************)
(* The scoring function on its own: colbertScore applied to a query        *)
(* multi-vector and a document multi-vector.                               *)
(***************************************************************************)
InitScore ==
    /\ input = [query |-> "", collection_name |-> "", top_k |-> 0]
    /\ IdlePipe
    /\ sQ \in MultiVecs
    /\ sD \in MultiVecs
    /\ sScore = NaN
    /\ sDone = FALSE
    /\ IdlePair
    /\ IdleWrite

ScoreStep ==
    /\ ~sDone
    /\ sScore' = colbertScore(sQ, sD)
    /\ sDone' = TRUE
    /\ UNCHANGED <<sQ, sD>>
    /\ UNCHANGED pipeVars
    /\ UNCHANGED pairVars
    /\ UNCHANGED writeVars

NextScore == ScoreStep

SpecScore == InitScore /\ [][NextScore]_vars

\* token vectors of one, two and three components: what a collection holds when its
\* documents were embedded by a model of another dimension than the query's
MixedVecs == {<<1>>, <<1, 0>>, <<0, 1>>, <<3, 4>>, <<1, 0, 0>>}

\* colbertScore applied to multi-vectors whose dimensions need not agree
InitScoreAny ==
    /\ input = [query |-> "", collection_name |-> "", top_k |-> 0]
    /\ IdlePipe
    /\ sQ \in SeqsUpTo(MixedVecs, MaxTokens) \ {<<>>}
    /\ sD \in SeqsUpTo(MixedVecs, MaxTokens) \ {<<>>}
    /\ sScore = NaN
    /\ sDone = FALSE
    /\ IdlePair
    /\ IdleWrite

SpecScoreAny == InitScoreAny /\ [][NextScore]_vars

(***************************************************************************)
(* Two executions of the search node at once.  JavaScript runs one         *)
(* execution at a time and switches at an await, so the steps that          *)
(* interleave are the ones between awaits.  The embedding backends are      *)
(* deterministic (the vectors are a function of the query); the index        *)
(* answers with any list of its points.                                     *)
(***************************************************************************)
\* mutant of Frame: one frame for all executions (the locals kept in shared state)
FrameShared(p) == 1

\* lines 14-103: every local is a const of the execution's own scope
Frame(p) == p

PairInputs ==
    {[query |-> "what is hybrid search", collection_name |-> "", top_k |-> 1],
     [query |-> "colbert reranking", collection_name |-> "docs", top_k |-> 2]}

\* line 16, for the input item inp
TopKOf(inp) == IF inp.top_k = 0 THEN DefaultTopK ELSE inp.top_k

\* the ColBERT backend's token vectors for a query
ColbertFor(query) ==
    IF query = "what is hybrid search" THEN ColbertVecs ELSE <<<<3, 4>>>>

\* the embedding requests of the two executions succeed or fail as unavailable
PairReplies == {"ok", "unavailable"}

PairPoints ==
    {[id |-> 1, score |-> <<17, 20>>,
      payload |-> [present |-> TRUE, text |-> "doc",
                   colbert_embedding |-> [tag |-> "array", vecs |-> <<<<1, 0>>>>]]],
     [id |-> 2, score |-> <<1, 2>>,
      payload |-> [present |-> TRUE, text |-> "doc",
                   colbert_embedding |-> [tag |-> "array", vecs |-> <<<<-1, 0>>, <<3, 4>>>>]]]}

\* the lists of points the index answers with: at most MaxCands, of distinct ids
PairPointLists ==
    {l \in SeqsUpTo(PairPoints, MaxCands) :
        \A i, j \in 1..Len(l) : l[i].id = l[j].id => i = j}

PairThrows(p) ==
    /\ invOutcome' = [invOutcome EXCEPT ![p] = "thrown"]
    /\ invPc' = [invPc EXCEPT ![p] = "done"]
    /\ UNCHANGED <<frames, invGot, invReturned>>

\* lines 14-26
PairStart(p) ==
    /\ invPc[p] = "start"
    /\ frames' = [frames EXCEPT ![Frame(p)].topK = TopKOf(invInput[p])]
    /\ invPc' = [invPc EXCEPT ![p] = "awaitDense"]
    /\ UNCHANGED <<invInput, invGot, invOutcome, invReturned>>
    /\ UNCHANGED <<pipeVars, scoreVars, writeVars>>

\* lines 20-36
PairDenseResponds(p, r) ==
    /\ invPc[p] = "awaitDense"
    /\ IF r \in Throws
       THEN PairThrows(p)
       ELSE /\ frames' = [frames EXCEPT ![Frame(p)].queryDense = Defined(DenseVec)]
            /\ invPc' = [invPc EXCEPT ![p] = "awaitBm25"]
            /\ UNCHANGED <<invGot, invOutcome, invReturned>>
    /\ UNCHANGED invInput
    /\ UNCHANGED <<pipeVars, scoreVars, writeVars>>

\* lines 30-46
PairBm25Responds(p, r) ==
    /\ invPc[p] = "awaitBm25"
    /\ IF r \in Throws
       THEN PairThrows(p)
       ELSE /\ frames' = [frames EXCEPT ![Frame(p)].queryBm25 = Defined(Bm25Vec)]
            /\ invPc' = [invPc EXCEPT ![p] = "awaitColbert"]
            /\ UNCHANGED <<invGot, invOutcome, invReturned>>
    /\ UNCHANGED invInput
    /\ UNCHANGED <<pipeVars, scoreVars, writeVars>>

\* lines 40-64
PairColbertResponds(p, r) ==
    /\ invPc[p] = "awaitColbert"
    /\ IF r \in Throws
       THEN PairThrows(p)
       ELSE /\ frames' = [frames EXCEPT
                            ![Frame(p)].queryColbert = Defined(ColbertFor(invInput[p].query))]
            /\ invGot' = [invGot EXCEPT ![p].colbert = ColbertFor(invInput[p].query)]
            /\ invPc' = [invPc EXCEPT ![p] = "awaitSearch"]
            /\ UNCHANGED <<invOutcome, invReturned>>
    /\ UNCHANGED invInput
    /\ UNCHANGED <<pipeVars, scoreVars, writeVars>>

\* lines 50-113
PairSearchResponds(p, r, pts) ==
    /\ invPc[p] = "awaitSearch"
    /\ IF r \in Throws
       THEN /\ pts = <<>>
            /\ PairThrows(p)
       ELSE /\ Len(pts) <= frames[Frame(p)].topK * PrefetchFactor
            /\ LET f == frames[Frame(p)]
                    res == Rerank(pts, f.queryColbert.v, f.topK)
               IN  /\ frames' = [frames EXCEPT ![Frame(p)].candidates = pts,
                                                ![Frame(p)].results = res]
                   /\ invReturned' = [invReturned EXCEPT ![p] = res]
            /\ invGot' = [invGot EXCEPT ![p].points = pts]
            /\ invOutcome' = [invOutcome EXCEPT ![p] = "returned"]
            /\ invPc' = [invPc EXCEPT ![p] = "done"]
    /\ UNCHANGED invInput
    /\ UNCHANGED <<pipeVars, scoreVars, writeVars>>

InitPair ==
    /\ input = [query |-> "", collection_name |-> "", top_k |-> 0]
    /\ IdlePipe
    /\ IdleScore
    /\ invInput \in [Invocations -> PairInputs]
    /\ invPc = [p \in Invocations |-> "start"]
    /\ frames = [p \in Invocations |-> NoFrame]
    /\ invGot = [p \in Invocations |-> NothingGot]
    /\ invOutcome = [p \in Invocations |-> "pending"]
    /\ invReturned = [p \in Invocations |-> <<>>]
    /\ IdleWrite

NextPair ==
    \E p \in Invocations :
        \/ PairStart(p)
        \/ \E r \in PairReplies : PairDenseResponds(p, r)
        \/ \E r \in PairReplies : PairBm25Responds(p, r)
        \/ \E r \in PairReplies : PairColbertResponds(p, r)
        \/ /\ invPc[p] = "awaitSearch"
           /\ \E r \in PairReplies, pts \in PairPointLists : PairSearchResponds(p, r, pts)

SpecPair == InitPair /\ [][NextPair]_vars

(***************************************************************************)
(* The insert-document node (05-insert-document-to-qdrant.js) run again    *)
(* and again on one collection, and searches of that collection.           *)
(***************************************************************************)
\* the input items: documents with every kind of colbert_embedding, and items that
\* lack the id (0 stands for a missing or falsy id), the text, both, or the
\* bm25_embedding
InsertEmbeddings == Embeddings \ {[tag |-> "array", vecs |-> <<<<0, 1>>>>]}

InsertInputs ==
    {[id |-> i, text |-> "doc", has_bm25 |-> TRUE, colbert_embedding |-> e] :
        i \in StoreIds, e \in InsertEmbeddings}
    \cup {[id |-> 0, text |-> "doc", has_bm25 |-> TRUE,
           colbert_embedding |-> [tag |-> "array", vecs |-> <<<<1, 0>>>>]],
          [id |-> 1, text |-> "", has_bm25 |-> TRUE,
           colbert_embedding |-> [tag |-> "array", vecs |-> <<<<1, 0>>>>]],
          [id |-> 0, text |-> "", has_bm25 |-> TRUE,
           colbert_embedding |-> [tag |-> "absent", vecs |-> <<>>]],
          [id |-> 2, text |-> "doc", has_bm25 |-> FALSE,
           colbert_embedding |-> [tag |-> "array", vecs |-> <<<<1, 0>>>>]]}

\* mutant of MissingRequired: the check left out
MissingRequiredNever(inp) == FALSE

\* line 24: !inputData.id || !inputData.text
MissingRequired(inp) == inp.id = 0 \/ inp.text = ""

\* mutant of StoredColbert: a missing embedding stored as [] (|| [] for || null)
StoredColbertEmpty(e) ==
    IF e.tag \in {"absent", "null"} THEN [tag |-> "array", vecs |-> <<>>] ELSE e

\* line 40: inputData.colbert_embedding || null (every array is truthy)
StoredColbert(e) ==
    IF e.tag \in {"absent", "null"} THEN [tag |-> "null", vecs |-> <<>>] ELSE e

\* lines 29-44: the point (its vectors, metadata and timestamp are not modelled)
point(inp) ==
    [id |-> inp.id,
     payload |-> [present |-> TRUE, text |-> inp.text,
                  colbert_embedding |-> StoredColbert(inp.colbert_embedding)]]

InsertDefaultCollection == "hybrid_search_collection"

\* lines 46-58: the request that upserts the point and waits for it to be applied
InsertRequest(inp) ==
    [method |-> "PUT",
     url |-> <<"collections", InsertDefaultCollection, "points">>,
     wait |-> TRUE,
     points |-> <<point(inp)>>]

\* how the PUT can end: 2xx, a connection failure or timeout, a non-2xx status
PutReplies == {"ok", "unavailable", "http"}

\* lines 52-72: the node returns when the request resolves and rethrows when it rejects
InsertOutcome(r) == IF r \in Throws THEN "thrown" ELSE "returned"

\* lines 19-58: a run of the node up to its await: it throws on a missing id or text
\* (line 25) or a missing bm25_embedding (TypeError, line 34), else sends the PUT
InsertStart(inp) ==
    /\ insPc \in {"idle", "done"}
    /\ inputData' = inp
    /\ insBefore' = store
    /\ insReply' = "none"
    /\ IF MissingRequired(inp) \/ ~inp.has_bm25
       THEN /\ insReqs' = <<>>
            /\ insOutcome' = "thrown"
            /\ insPc' = "done"
       ELSE /\ insReqs' = <<InsertRequest(inp)>>
            /\ insOutcome' = "pending"
            /\ insPc' = "awaitPut"
    /\ UNCHANGED <<store, stCandidates, stResults, stOutcome>>
    /\ UNCHANGED <<pipeVars, scoreVars, pairVars, createVars>>

\* lines 52-72: the PUT ends.  The index has applied it when it answers 2xx, has not
\* when it answers with an error status, and may or may not have when the connection
\* failed or timed out.
InsertPutResponds(r, applied) ==
    /\ insPc = "awaitPut"
    /\ r = "ok" => applied
    /\ r = "http" => ~applied
    /\ insReply' = r
    /\ insOutcome' = InsertOutcome(r)
    /\ insPc' = "done"
    /\ IF applied
       THEN /\ store' = [store EXCEPT ![inputData.id] =
                            [exists |-> TRUE, payload |-> insReqs[1].points[1].payload]]
            /\ stCandidates' = <<>>
            /\ stResults' = <<>>
            /\ stOutcome' = "none"
       ELSE UNCHANGED <<store, stCandidates, stResults, stOutcome>>
    /\ UNCHANGED <<inputData, insReqs, insBefore>>
    /\ UNCHANGED <<pipeVars, scoreVars, pairVars, createVars>>

\* the fused score the index gives the point of id i for the query
StoreScore(i) == IF i = 1 THEN <<17, 20>> ELSE <<1, 2>>

\* the stored points as the index returns them (with_payload), each with its score
StoredPoints ==
    {[id |-> i, score |-> StoreScore(i), payload |-> store[i].payload] :
        i \in {j \in StoreIds : store[j].exists}}

\* the answers of the index to a query: at most MaxCands stored points of distinct ids
StoreLists ==
    {l \in SeqsUpTo(StoredPoints, MaxCands) :
        \A i, j \in 1..Len(l) : l[i].id = l[j].id => i = j}

\* search node, lines 50-113, on the index's answer pts, with the query's ColBERT
\* vectors qc and topK k
StoreSearch(pts, qc, k) ==
    /\ stCandidates' = pts
    /\ IF Filter(pts) # <<>> /\ ~qc.defined
       THEN /\ stOutcome' = "thrown"
            /\ stResults' = <<>>
       ELSE /\ stOutcome' = "returned"
            /\ stResults' = Rerank(pts, qc.v, k)
    /\ UNCHANGED <<store, inputData, insPc, insReqs, insReply, insOutcome, insBefore>>
    /\ UNCHANGED <<pipeVars, scoreVars, pairVars, createVars>>

InitInsert ==
    /\ input = [query |-> "", collection_name |-> "", top_k |-> 0]
    /\ IdlePipe
    /\ IdleScore
    /\ IdlePair
    /\ IdleWrite

NextInsert ==
    \/ \E inp \in InsertInputs : InsertStart(inp)
    \/ \E r \in PutReplies, applied \in BOOLEAN : InsertPutResponds(r, applied)
    \/ \E pts \in StoreLists, qc \in {Defined(ColbertVecs), Undefined(<<>>)},
          k \in {1, DefaultTopK} : StoreSearch(pts, qc, k)

SpecInsert == InitInsert /\ [][NextInsert]_vars

(***************************************************************************)
(* The create-collection node (part_003), run twice at once.  The runs     *)
(* interleave at their awaits.                                             *)
(***************************************************************************)
CollectionNames == {"docs", "hybrid_demo"}

\* how the GET of the collection can end: 200, 404, a connection failure or timeout
CheckReplies == {"ok", "notfound", "unavailable"}

\* mutant of CheckPassed: the existence check never taken as passed
CheckPassedNever(reply) == FALSE

\* lines 29-39: the try block returns when the GET resolves; any rejection is caught
\* and taken as 'does not exist'
CheckPassed(reply) == reply = "ok"

\* mutant of CreateOutcome: created: true returned however the PUT ended
CreateOutcomeAlways(reply) == "true"

\* lines 42-50: a rejected PUT throws, a resolved one is followed by created: true
CreateOutcome(reply) == IF reply \in Throws THEN "thrown" ELSE "true"

\* lines 13-34: the run reads its input and issues the GET
CreateStart(r) ==
    /\ crPc[r] = "start"
    /\ crPc' = [crPc EXCEPT ![r] = "awaitCheck"]
    /\ crAfter' = [crAfter EXCEPT ![r] = {q \in Runs : crPc[q] = "done"}]
    /\ UNCHANGED <<collections, crInput, crCheck, crPuts, crPut, crOutcome, faulty>>
    /\ UNCHANGED <<pipeVars, scoreVars, pairVars, insertVars>>

\* lines 29-48: the GET ends: 200 for a collection the index holds, 404 for one it
\* does not, or a failure whichever is the case; the run returns created: false, or
\* goes on to issue the PUT
CreateCheckResponds(r, reply) ==
    /\ crPc[r] = "awaitCheck"
    /\ reply = "ok" => crInput[r] \in collections
    /\ reply = "notfound" => crInput[r] \notin collections
    /\ crCheck' = [crCheck EXCEPT ![r] = reply]
    /\ faulty' = (faulty \/ reply = "unavailable")
    /\ IF CheckPassed(reply)
       THEN /\ crOutcome' = [crOutcome EXCEPT ![r] = "false"]
            /\ crPc' = [crPc EXCEPT ![r] = "done"]
            /\ UNCHANGED crPuts
       ELSE /\ crPuts' = [crPuts EXCEPT ![r] = crPuts[r] + 1]
            /\ crPc' = [crPc EXCEPT ![r] = "awaitPut"]
            /\ UNCHANGED crOutcome
    /\ UNCHANGED <<collections, crInput, crPut, crAfter>>
    /\ UNCHANGED <<pipeVars, scoreVars, pairVars, insertVars>>

\* lines 42-50: the PUT ends.  For a name the index does not hold, a reliable index
\* creates the collection and answers 2xx.  For a name it holds already, the index
\* answers with an error status (the README's "Collection Already Exists Error") or
\* 2xx: the repository does not settle which.  A failed connection may or may not
\* have created the collection.
CreatePutResponds(r, reply, applied) ==
    /\ crPc[r] = "awaitPut"
    /\ reply = "ok" => applied
    /\ reply = "http" => ~applied
    /\ crPut' = [crPut EXCEPT ![r] = reply]
    /\ faulty' = (faulty \/ reply = "unavailable"
                         \/ (reply = "http" /\ crInput[r] \notin collections))
    /\ collections' = IF applied THEN collections \cup {crInput[r]} ELSE collections
    /\ crOutcome' = [crOutcome EXCEPT ![r] = CreateOutcome(reply)]
    /\ crPc' = [crPc EXCEPT ![r] = "done"]
    /\ UNCHANGED <<crInput, crCheck, crPuts, crAfter>>
    /\ UNCHANGED <<pipeVars, scoreVars, pairVars, insertVars>>

InitCreate ==
    /\ input = [query |-> "", collection_name |-> "", top_k |-> 0]
    /\ IdlePipe
    /\ IdleScore
    /\ IdlePair
    /\ IdleInsert
    /\ collections \in SUBSET CollectionNames
    /\ crInput \in [Runs -> CollectionNames]
    /\ crPc = [r \in Runs |-> "start"]
    /\ crCheck = [r \in Runs |-> "none"]
    /\ crPuts = [r \in Runs |-> 0]
    /\ crPut = [r \in Runs |-> "none"]
    /\ crOutcome = [r \in Runs |-> "pending"]
    /\ crAfter = [r \in Runs |-> {}]
    /\ faulty = FALSE

NextCreate ==
    \E r \in Runs :
        \/ CreateStart(r)
        \/ \E reply \in CheckReplies : CreateCheckResponds(r, reply)
        \/ \E reply \in PutReplies, applied \in BOOLEAN : CreatePutResponds(r, reply, applied)

SpecCreate == InitCreate /\ [][NextCreate]_vars

(***************************************************************************)
(* Properties.                                                             *)
(***************************************************************************)
Range(f) == {f[i] : i \in DOMAIN f}

EmbeddingKinds == {"dense", "bm25", "colbert"}

\* the returned point a result was made from
SourceOf(r) == CHOOSE c \in Range(candidates) : c.id = r.id

\* a point without usable late-interaction vectors: no payload, field absent, null, or []
LacksVectors(c) ==
    \/ ~c.payload.present
    \/ c.payload.colbert_embedding.tag # "array"
    \/ c.payload.colbert_embedding.vecs = <<>>

\* x >= y on finite numbers and infinities
Geq(x, y) == ~IsNaN(x) /\ ~IsNaN(y) /\ ~Less(x, y)

\* C1: the results returned by a search never contain the id of a candidate whose
\* payload.colbert_embedding is absent, null or an empty sequence.
C1_NoResultWithoutVectors ==
    outcome = "returned" =>
        \A i \in 1..Len(results) :
            \A c \in Range(candidates) : c.id = results[i].id => ~LacksVectors(c)

\* C2: adjacent results are ordered by descending final score, then descending
\* late-interaction score, then ascending id.
C2_TotalOrder ==
    (outcome = "returned" /\ \A i \in 1..Len(results) : IsFinite(results[i].final_score)) =>
        \A i \in 1..(Len(results) - 1) :
            LET a == results[i]
                b == results[i + 1]
            IN  \/ Less(b.final_score, a.final_score)
                \/ /\ a.final_score = b.final_score
                   /\ \/ Less(b.colbert_score, a.colbert_score)
                      \/ a.colbert_score = b.colbert_score /\ a.id <= b.id

\* the MaxSim reference: the mean over q in Q of the largest cosine of q with a d in D,
\* the cosine with a zero vector being 0
RECURSIVE RefDot(_, _, _)
RefDot(u, v, n) == IF n = 0 THEN 0 ELSE RefDot(u, v, n - 1) + u[n] * v[n]

RefNorm(u) == CHOOSE r \in 0..RefDot(u, u, Len(u)) : r * r = RefDot(u, u, Len(u))

RefCos(q, d) ==
    IF RefNorm(q) = 0 \/ RefNorm(d) = 0 THEN Zero
    ELSE Frac(RefDot(q, d, Len(q)), RefNorm(q) * RefNorm(d))

RefBest(q, D) ==
    CHOOSE m \in {RefCos(q, D[j]) : j \in 1..Len(D)} :
        \A j \in 1..Len(D) : ~Less(m, RefCos(q, D[j]))

RECURSIVE RefSum(_, _, _)
RefSum(Q, D, k) == IF k = 0 THEN Zero ELSE Add(RefSum(Q, D, k - 1), RefBest(Q[k], D))

RefMaxSim(Q, D) == Frac(RefSum(Q, D, Len(Q))[1], RefSum(Q, D, Len(Q))[2] * Len(Q))

\* C3: for non-empty Q and D of equal-dimension token vectors, colbertScore(Q, D) is
\* the MaxSim reference.
C3_ScoreIsMaxSim ==
    sDone => sScore = RefMaxSim(sQ, sD)

C3_Witness ==
    /\ sDone
    /\ sQ = <<<<3, 4>>, <<1, 0>>>>
    /\ sD = <<<<0, 1>>, <<-1, 0>>>>
    /\ sScore = <<2, 5>>

\* C4: every result's hybrid score is the raw score of its candidate and its final
\* score is hybrid * 0.4 + colbert * 0.6 (fused 0.85 and late-interaction 0.92 give
\* 0.892).
C4_FinalScoreFormula ==
    /\ FinalScore(<<17, 20>>, <<23, 25>>) = <<223, 250>>
    /\ outcome = "returned" =>
        \A i \in 1..Len(results) :
            LET r == results[i]
                h == r.hybrid_score
                c == r.colbert_score
                f == r.final_score
            IN  /\ h = SourceOf(r).score
                /\ IF IsFinite(c)
                   THEN /\ IsFinite(f)
                        /\ 5 * f[1] * h[2] * c[2] = f[2] * (2 * h[1] * c[2] + 3 * c[1] * h[2])
                   ELSE f = c

C4_Witness ==
    /\ outcome = "returned"
    /\ \E i \in 1..Len(results) :
        /\ results[i].hybrid_score = <<17, 20>>
        /\ results[i].colbert_score = <<1, 2>>
        /\ results[i].final_score = <<16, 25>>

Kept == {c \in Range(candidates) : HasColbert(c)}

ValidInput == input.query # "" /\ input.top_k >= 1

\* C7: (for a valid search) the three embedding requests are all in flight before any
\* of their responses is awaited.
C7_EmbeddingsConcurrent ==
    (/\ ValidInput
     /\ pc \in {"awaitDense", "awaitBm25", "awaitColbert"} \/ responded # {}) =>
        EmbeddingKinds \subseteq Range(calls)

\* an embedding call failed: it threw, or its response carried no embedding
EmbeddingFailed(k) ==
    \/ error.at = k
    \/ k = "dense" /\ "dense" \in responded /\ ~queryDense.defined
    \/ k = "bm25" /\ "bm25" \in responded /\ ~queryBm25.defined
    \/ k = "colbert" /\ "colbert" \in responded /\ ~queryColbert.defined

\* C8: (for a valid search) when an embedding call fails, no index query is issued
\* (none with a partial set of query vectors) and no result list is returned.
C8_EmbeddingFailureFailsSearch ==
    \A k \in EmbeddingKinds :
        (ValidInput /\ EmbeddingFailed(k)) =>
            /\ "index" \notin Range(calls)
            /\ outcome # "returned"

Attempts(k) == Cardinality({i \in 1..Len(calls) : calls[i] = k})

\* C9: (for a valid search) a call that fails as unavailable is retried exactly once
\* before the failure is surfaced, a call that fails with a backend error is never
\* retried, and no backend gets more than two attempts.
C9_RetryOnceOnUnavailable ==
    ValidInput =>
        /\ \A k \in EmbeddingKinds \cup {"index"} : Attempts(k) <= 2
        /\ outcome = "thrown" /\ error.kind = "http" => Attempts(error.at) = 1
        /\ outcome = "thrown" /\ error.kind = "unavailable" => Attempts(error.at) = 2

\* C10: (for a valid search) when the deadline expires before the search has
\* completed, the search fails and no result list is returned.
C10_NoResultAfterDeadline ==
    (ValidInput /\ deadlineExpired) =>
        /\ outcome # "returned"
        /\ pc = "done" => outcome = "thrown"

\* C11: a search whose query is empty or whose top_k is negative is rejected before
\* any embedding or index request is issued: no call is made and no result returned.
C11_InvalidInputRejected ==
    (input.query = "" \/ input.top_k < 0) =>
        /\ calls = <<>>
        /\ outcome # "returned"
        /\ pc = "done" => outcome = "thrown"

\* C13: (for a valid search whose embedding calls yielded their vectors) a result
\* list, empty or not, is returned only when every backend call yielded a valid
\* response; a failed or malformed response ends the search as a failed call.
C13_FailureIsReported ==
    (ValidInput /\ queryDense.defined /\ queryBm25.defined /\ queryColbert.defined) =>
        /\ outcome = "returned" => \A i \in 1..Len(replies) : replies[i] = "ok"
        /\ (pc = "done" /\ \E i \in 1..Len(replies) : replies[i] # "ok") =>
               outcome = "thrown"

\* some query token vector and some document token vector differ in length
DimensionsDiffer(qVecs, dVecs) ==
    \E i \in 1..Len(qVecs), j \in 1..Len(dVecs) : Len(qVecs[i]) # Len(dVecs[j])

\* C12: scoring a query against stored token vectors of another dimension never
\* completes with a value: no number, NaN or prefix score, is produced.
C12_DimensionMismatchRaised == ~(sDone /\ DimensionsDiffer(sQ, sD))

ZeroNorm(v) == \A i \in 1..Len(v) : v[i] = 0

Exchanged(s, i, j) ==
    [k \in 1..Len(s) |-> IF k = i THEN s[j] ELSE IF k = j THEN s[i] ELSE s[k]]

LateWeights == {Zero, ColbertWeight, <<1, 1>>}

\* a is in the output, and b is further down or cut off
RankedBefore(out, a, b) ==
    \E i \in 1..Len(out) :
        /\ out[i].id = a.id
        /\ \A j \in 1..Len(out) : out[j].id = b.id => i < j

\* the candidates kept by the filter, mapped (lines 90-101)
Mapped ==
    LET kept == Filter(candidates)
    IN  [i \in 1..Len(kept) |-> ScoreCandidate(kept[i], queryColbert.v)]

\* C18: the node's results are the first topK of the rerank output under its weight
\* 0.6, and for any two candidates a, b of equal fused score with a's late-interaction
\* score the higher, and any late-interaction weights 0 <= w <= w2 (the fused weight
\* staying 0.4): if a is ranked before b in the rerank output under w, a is ranked
\* before b in it under w2, and b is not ranked before a in its first topK.
C18_WeightMonotone ==
    outcome = "returned" =>
        LET mapped == Mapped
            out == [w \in LateWeights |-> Sort(Reweigh(mapped, w))]
        IN  /\ results = Slice(out[ColbertWeight], topK)
            /\ \A w \in LateWeights, w2 \in LateWeights :
                 ~Less(w2, w) =>
                   \A i \in 1..Len(mapped), j \in 1..Len(mapped) :
                     LET a == mapped[i]
                         b == mapped[j]
                     IN  (/\ a.hybrid_score = b.hybrid_score
                          /\ Less(b.colbert_score, a.colbert_score)
                          /\ RankedBefore(out[w], a, b))
                         => /\ RankedBefore(out[w2], a, b)
                            /\ ~RankedBefore(Slice(out[w2], topK), b, a)

\* a search returned a before b, of equal fused score and a's late-interaction score
\* the higher; without late-interaction weight b, listed first by the index, is before a
C18_Witness ==
    /\ outcome = "returned"
    /\ \E i \in 1..Len(Mapped), j \in 1..Len(Mapped) :
        LET a == Mapped[i]
            b == Mapped[j]
        IN  /\ a.hybrid_score = b.hybrid_score
            /\ Less(b.colbert_score, a.colbert_score)
            /\ IsFinite(b.colbert_score)
            /\ RankedBefore(results, a, b)
            /\ RankedBefore(Sort(Reweigh(Mapped, Zero)), b, a)
            /\ RankedBefore(Sort(Reweigh(Mapped, <<1, 1>>)), a, b)

\* a request to the query endpoint of collection name: it reads points and writes
\* nothing (collections are created by PUT /collections/<name>, points written by
\* PUT /collections/<name>/points, either deleted by DELETE or POST .../points/delete)
IsQueryOf(req, name) ==
    /\ req.method = "POST"
    /\ req.url = <<"collections", name, "points", "query">>

\* C20: whatever the outcome of the search, every request it has sent to the index is
\* a query of the named collection, and the index is sent nothing besides the one
\* request of the search.
C20_IndexReadOnly ==
    /\ Attempts("index") = Len(indexReqs)
    /\ Len(indexReqs) <= 1
    /\ \A i \in 1..Len(indexReqs) : IsQueryOf(indexReqs[i], collectionName)

\* a search of collection "docs" that failed at the index
C20_Witness ==
    /\ outcome = "thrown"
    /\ error.at = "index"
    /\ input.collection_name = "docs"
    /\ Len(indexReqs) = 1
    /\ IsQueryOf(indexReqs[1], "docs")

\* C19: whatever the interleaving of two executions, an execution that returns
\* returns what it returns when run alone on its input and the responses to its own
\* requests: the first topK of the rerank of the points it got, scored against the
\* query token vectors it got.
C19_InvocationsIndependent ==
    \A p \in Invocations :
        invOutcome[p] = "returned" =>
            invReturned[p] =
                Rerank(invGot[p].points, invGot[p].colbert, TopKOf(invInput[p]))

\* two executions with different queries got the same two points from the index and
\* returned them differently
C19_Witness ==
    /\ invOutcome = [p \in Invocations |-> "returned"]
    /\ invInput[1].query # invInput[2].query
    /\ invGot[1].points = invGot[2].points
    /\ Len(invGot[1].points) = 2
    /\ Len(invReturned[1]) = 1
    /\ Len(invReturned[2]) = 2
    /\ invReturned[1][1].id # invReturned[2][1].id

\* how many elements of the sequence of records s have the id n
CountId(s, n) == Cardinality({i \in 1..Len(s) : s[i].id = n})

\* the rerank output before it is cut to topK
Untruncated == Rerank(candidates, queryColbert.v, Len(candidates))

\* C21: when a search returns, its results are the first topK of the rerank output,
\* and in that output every candidate that has late-interaction vectors has exactly
\* one result, every result has the id, text and fused score of exactly one returned
\* candidate, and no id occurs more often than in the index response.
C21_OneResultPerCandidate ==
    outcome = "returned" =>
        LET out == Untruncated
        IN  /\ results = Slice(out, topK)
            /\ \A c \in Range(candidates) : ~LacksVectors(c) => CountId(out, c.id) = 1
            /\ \A i \in 1..Len(out) :
                 /\ CountId(candidates, out[i].id) = 1
                 /\ \E c \in Range(candidates) :
                      /\ c.id = out[i].id
                      /\ c.payload.present
                      /\ c.payload.text = out[i].text
                      /\ c.score = out[i].hybrid_score
            /\ \A n \in PointIds : CountId(out, n) <= CountId(candidates, n)

\* of two returned candidates, one without a payload and one with vectors, the
\* second alone was reranked into a result
C21_Witness ==
    /\ outcome = "returned"
    /\ Len(candidates) = 2
    /\ ~candidates[1].payload.present
    /\ ~LacksVectors(candidates[2])
    /\ Len(Untruncated) = 1
    /\ results = Untruncated
    /\ results[1].id = candidates[2].id

\* the sequence cs without its j-th element
Without(cs, j) == SubSeq(cs, 1, j - 1) \o SubSeq(cs, j + 1, Len(cs))

\* the result of the output out that has the id n
ResultFor(out, n) == out[CHOOSE i \in 1..Len(out) : out[i].id = n]

IdsOf(rs) == {rs[i].id : i \in 1..Len(rs)}

C26_InsertValidatesAndRethrows ==
    /\ (insPc # "idle" /\ (inputData.id = 0 \/ inputData.text = "")) =>
         /\ insReqs = <<>>
         /\ insOutcome = "thrown"
         /\ store = insBefore
    /\ Len(insReqs) <= 1
    /\ \A i \in 1..Len(insReqs) :
         /\ insReqs[i].method = "PUT"
         /\ insReqs[i].points = <<point(inputData)>>
    /\ insOutcome = "returned" =>
         /\ insReply = "ok"
         /\ Len(insReqs) = 1
         /\ inputData.id \in StoreIds
         /\ store[inputData.id] = [exists |-> TRUE, payload |-> point(inputData).payload]
    /\ insReply \in Throws => insOutcome = "thrown"

\* with a document stored, a run on an input without text threw and left the store
\* as it was
C26_Witness ==
    /\ insOutcome = "thrown"
    /\ inputData.id = 1
    /\ inputData.text = ""
    /\ insReqs = <<>>
    /\ store[1].exists
    /\ store = insBefore

C25_CreateReturns ==
    \A r \in Runs :
        /\ crOutcome[r] = "false" <=> crCheck[r] = "ok"
        /\ crCheck[r] \in {"none", "ok"} => crPuts[r] = 0
        /\ crCheck[r] \in {"notfound", "unavailable"} => crPuts[r] = 1
        /\ crOutcome[r] = "true" => (crPuts[r] = 1 /\ crPut[r] = "ok")
        /\ crPut[r] \in Throws => crOutcome[r] = "thrown"

\* the check of a collection the index holds failed on the connection, and the run
\* sent the create PUT
C25_Witness ==
    /\ crPc[2] = "start"
    /\ crInput[1] \in collections
    /\ crCheck[1] = "unavailable"
    /\ crPuts[1] = 1
    /\ crPc[1] = "awaitPut"

====
